---------------------------- MODULE Spec2Model ----------------------------
(***************************************************************************)
(* A model of processor.py, the question processor of the Anki quiz app:   *)
(* parse_answers, check_answer, get_question_type, get_shuffled_options,   *)
(* validate_question_format and validate_questions.                        *)
(*                                                                         *)
(* The functions are pure (the shuffle apart), so a state is a pending or  *)
(* finished call: `fn` names the function, the variables named after the   *)
(* parameters hold its arguments, `pc` says whether it has run and `ret`   *)
(* holds what it returned or the exception it raised.                      *)
(*                                                                         *)
(* A Python str is a sequence of one-character strings, a list a sequence, *)
(* a dict a record whose absent keys are marked as such.                   *)
(***************************************************************************)
EXTENDS Integers, Sequences, FiniteSets, TLC

VARIABLES pc, fn, answer_string, user_answers, correct_answers,
          question, questions, ret

vars == <<pc, fn, answer_string, user_answers, correct_answers,
          question, questions, ret>>

-----------------------------------------------------------------------------
(* Bounds of the enumerated inputs.                                        *)

\* longest answer string enumerated character by character
MaxStrLen == 4
\* longest user_answers / correct_answers given to check_answer directly
MaxAnswers == 3
\* most tokens of an Answers[0] written out from an encoding
MaxTokens == 7
\* most 1 tokens of such an Answers[0]
MaxOnes == 1
\* most Q_i keys present in an enumerated question
MaxFields == 2
\* most tokens of an Answers value in the shuffle-then-check round trip
MaxQuizTokens == 3
\* most questions of an enumerated deck
MaxDeck == 3

\* range(1, 7): the option slots Q_1 .. Q_6
NumSlots == 6

-----------------------------------------------------------------------------
(* Values.                                                                 *)

\* the characters strings are made of: digits, a sign, blank, a letter
Chars == {"0", "1", "2", " ", "-", "x"}

Digits == {"0", "1", "2"}

\* str.isspace for one character
isspace(c) == c = " "

\* a normal return and a raised exception
Return(v) == [ok |-> TRUE, err |-> "", val |-> v]

Raise(e) == [ok |-> FALSE, err |-> e, val |-> <<>>]

\* nothing returned yet
NoRet == Raise("")

\* all sequences over S of length at most n
SeqsUpTo(S, n) == UNION {[1..k -> S] : k \in 0..n}

Min(a, b) == IF a < b THEN a ELSE b

-----------------------------------------------------------------------------
(* str.strip, str.split, int                                               *)

RECURSIVE lstrip(_)
lstrip(s) ==
    IF s # <<>> /\ isspace(Head(s)) THEN lstrip(Tail(s)) ELSE s

RECURSIVE rstrip(_)
rstrip(s) ==
    IF s # <<>> /\ isspace(s[Len(s)])
    THEN rstrip(SubSeq(s, 1, Len(s) - 1))
    ELSE s

strip(s) == rstrip(lstrip(s))

\* split(): the maximal runs of non-whitespace characters, in order.
\* cur is the run being read, acc the runs already closed.
RECURSIVE splitFrom(_, _, _)
splitFrom(s, cur, acc) ==
    IF s = <<>>
    THEN IF cur = <<>> THEN acc ELSE Append(acc, cur)
    ELSE IF isspace(Head(s))
         THEN splitFrom(Tail(s), <<>>,
                        IF cur = <<>> THEN acc ELSE Append(acc, cur))
         ELSE splitFrom(Tail(s), Append(cur, Head(s)), acc)

split(s) == splitFrom(s, <<>>, <<>>)

DigitVal(c) == CASE c = "0" -> 0 [] c = "1" -> 1 [] c = "2" -> 2

\* the digits of an integer literal: what follows an optional sign
Unsigned(tok) == IF tok # <<>> /\ Head(tok) = "-" THEN Tail(tok) ELSE tok

\* int(tok) succeeds: an optional sign and at least one digit, nothing else
IsIntLiteral(tok) ==
    /\ Unsigned(tok) # <<>>
    /\ \A i \in 1..Len(Unsigned(tok)) : Unsigned(tok)[i] \in Digits

RECURSIVE DecimalValue(_)
DecimalValue(ds) ==
    IF ds = <<>> THEN 0
    ELSE 10 * DecimalValue(SubSeq(ds, 1, Len(ds) - 1)) + DigitVal(ds[Len(ds)])

\* int(tok) for a literal
int(tok) ==
    IF Head(tok) = "-" THEN 0 - DecimalValue(Unsigned(tok))
    ELSE DecimalValue(tok)

-----------------------------------------------------------------------------
(* parse_answers, check_answer                                             *)

\* a parse that drops the tokens int rejects
RECURSIVE keep_literals(_)
keep_literals(toks) ==
    IF toks = <<>> THEN <<>>
    ELSE IF IsIntLiteral(Head(toks))
         THEN <<int(Head(toks))>> \o keep_literals(Tail(toks))
         ELSE keep_literals(Tail(toks))

parse_answers_lenient(s) == Return(keep_literals(split(strip(s))))

\* [int(x) for x in answer_string.strip().split()]; int raises ValueError
parse_answers(s) ==
    LET toks == split(strip(s)) IN
    IF \A i \in 1..Len(toks) : IsIntLiteral(toks[i])
    THEN Return([i \in 1..Len(toks) |-> int(toks[i])])
    ELSE Raise("ValueError")

\* the image with the condition inverted
user_ints_inverted(ua) == [i \in 1..Len(ua) |-> IF ua[i] THEN 0 ELSE 1]

\* [1 if x else 0 for x in user_answers]
user_ints(ua) == [i \in 1..Len(ua) |-> IF ua[i] THEN 1 ELSE 0]

\* correct_answers[:n]
Prefix(ca, n) == SubSeq(ca, 1, Min(n, Len(ca)))

\* a check against the whole of correct_answers, not its prefix
check_answer_whole(ua, ca) == Return(user_ints(ua) = ca)

check_answer(ua, ca) == Return(user_ints(ua) = Prefix(ca, Len(ua)))

RECURSIVE sum(_)
sum(xs) == IF xs = <<>> THEN 0 ELSE Head(xs) + sum(Tail(xs))

-----------------------------------------------------------------------------
(* Questions: the dict a caller passes.  hasQuestion says whether the key  *)
(* 'Question' is present; Answers is the value under 'Answers', tagged by  *)
(* its Python type ("absent": no such key; "other": neither list nor str,  *)
(* such as a number or None); Q maps the slots i whose key Q_i is present  *)
(* to the option text.                                                     *)

AbsentValue == [kind |-> "absent", val |-> <<>>]

OtherValue == [kind |-> "other", val |-> <<>>]

ListValue(items) == [kind |-> "list", val |-> items]

StrValue(s) == [kind |-> "str", val |-> s]

NoOptions == <<>>

NoQuestion == [hasQuestion |-> FALSE, Answers |-> AbsentValue, Q |-> NoOptions]

\* a subscript that takes a string Answers whole
AnswersFirst_whole(q) ==
    CASE q.Answers.kind = "absent" -> Raise("KeyError")
      [] q.Answers.kind = "other"  -> Raise("TypeError")
      [] q.Answers.val = <<>>      -> Raise("IndexError")
      [] q.Answers.kind = "list"   -> Return(q.Answers.val[1])
      [] q.Answers.kind = "str"    -> Return(q.Answers.val)

\* question['Answers'][0]: KeyError without the key, TypeError for a value
\* that cannot be subscripted, IndexError for an empty list or string; the
\* first element of a list, the first character of a string
AnswersFirst(q) ==
    CASE q.Answers.kind = "absent" -> Raise("KeyError")
      [] q.Answers.kind = "other"  -> Raise("TypeError")
      [] q.Answers.val = <<>>      -> Raise("IndexError")
      [] q.Answers.kind = "list"   -> Return(q.Answers.val[1])
      [] q.Answers.kind = "str"    -> Return(<<q.Answers.val[1]>>)

\* the encoding both the classifier and the shuffler start from; an
\* exception of the subscript or of parse_answers propagates
AnswersEncoding(q) ==
    LET first == AnswersFirst(q) IN
    IF first.ok THEN parse_answers(first.val) ELSE first

\* "single" for at most one correct answer
question_type_at_most_one(num_correct) ==
    <<IF num_correct <= 1 THEN "single" ELSE "multiple", num_correct>>

question_type(num_correct) ==
    <<IF num_correct = 1 THEN "single" ELSE "multiple", num_correct>>

get_question_type(q) ==
    LET encoding == AnswersEncoding(q) IN
    IF encoding.ok
    THEN Return(question_type(sum(encoding.val)))
    ELSE encoding

\* question.get(f'Q_{i}', '').strip()
option_text(q, i) == strip(IF i \in DOMAIN q.Q THEN q.Q[i] ELSE <<>>)

\* a flag of 1 for an option the encoding does not reach
option_flag_default_one(enc, i) == IF i - 1 < Len(enc) THEN enc[i] ELSE 1

\* correct_answers[i-1] if i-1 < len(correct_answers) else 0
option_flag(enc, i) == IF i - 1 < Len(enc) THEN enc[i] ELSE 0

\* a loop that gives the n-th non-empty option the n-th flag, so that an
\* empty slot shifts the flags of the slots behind it
RECURSIVE collect_packed(_, _, _, _)
collect_packed(q, enc, i, n) ==
    IF i > NumSlots THEN <<>>
    ELSE IF strip(IF i \in DOMAIN q.Q THEN q.Q[i] ELSE <<>>) # <<>>
         THEN <<<<strip(q.Q[i]), IF n - 1 < Len(enc) THEN enc[n] ELSE 0>>>>
              \o collect_packed(q, enc, i + 1, n + 1)
         ELSE collect_packed(q, enc, i + 1, n)

collect_options_packed(q, enc, i) == collect_packed(q, enc, i, 1)

\* the loop over range(1, 7): the (option, answer) pairs of the non-empty
\* slots from slot i on, in slot order
RECURSIVE collect_options(_, _, _)
collect_options(q, enc, i) ==
    IF i > NumSlots THEN <<>>
    ELSE IF option_text(q, i) # <<>>
         THEN <<<<option_text(q, i), option_flag(enc, i)>>>>
              \o collect_options(q, enc, i + 1)
         ELSE collect_options(q, enc, i + 1)

\* what random.shuffle may leave of a list of n elements: position j holds
\* the element that was at p[j]
ShuffleOrders(n) ==
    {p \in [1..n -> 1..n] : \A i, j \in 1..n : p[i] = p[j] => i = j}

shuffle(options, p) == [j \in 1..Len(options) |-> options[p[j]]]

\* ([opt for opt, _ in options], [ans for _, ans in options])
unzip(options) ==
    <<[j \in 1..Len(options) |-> options[j][1]],
      [j \in 1..Len(options) |-> options[j][2]]>>

\* get_shuffled_options when the shuffle leaves the order p
get_shuffled_options(q, p) ==
    LET encoding == AnswersEncoding(q) IN
    IF encoding.ok
    THEN Return(unzip(shuffle(collect_options(q, encoding.val, 1), p)))
    ELSE encoding

\* the number of options the shuffle is applied to
NumOptions(q) ==
    LET encoding == AnswersEncoding(q) IN
    IF encoding.ok
    THEN Len(collect_options(q, encoding.val, 1))
    ELSE 0

-----------------------------------------------------------------------------
(* validate_question_format, validate_questions                            *)

\* a validation that also rejects an Answers whose first element does not
\* parse
validate_question_format_strict(q) ==
    IF ~q.hasQuestion THEN Return(<<FALSE, "Missing required field: Question">>)
    ELSE IF q.Answers.kind = "absent"
    THEN Return(<<FALSE, "Missing required field: Answers">>)
    ELSE IF q.Answers.kind \notin {"list", "str"} \/ ~AnswersEncoding(q).ok
    THEN Return(<<FALSE, "Invalid 'Answers' format: must be a list or string">>)
    ELSE Return(<<TRUE, "">>)

\* the loop over required_fields, Question before Answers, then the
\* isinstance check
validate_question_format(q) ==
    IF ~q.hasQuestion THEN Return(<<FALSE, "Missing required field: Question">>)
    ELSE IF q.Answers.kind = "absent"
    THEN Return(<<FALSE, "Missing required field: Answers">>)
    ELSE IF q.Answers.kind \notin {"list", "str"}
    THEN Return(<<FALSE, "Invalid 'Answers' format: must be a list or string">>)
    ELSE Return(<<TRUE, "">>)

\* f"Question {i+1}: {error_msg}", n being i+1
question_error(n, error_msg) == "Question " \o ToString(n) \o ": " \o error_msg

\* a loop that goes on after a failure and reports the last one
RECURSIVE validate_keep_last(_, _, _)
validate_keep_last(qs, n, last) ==
    IF n > Len(qs) THEN last
    ELSE IF ~validate_question_format(qs[n]).val[1]
         THEN validate_keep_last(qs, n + 1,
                  Return(<<FALSE, question_error(n,
                                      validate_question_format(qs[n]).val[2])>>))
         ELSE validate_keep_last(qs, n + 1, last)

validate_from_last(qs, n) == validate_keep_last(qs, n, Return(<<TRUE, "">>))

\* the loop of validate_questions from the n-th question on
RECURSIVE validate_from(_, _)
validate_from(qs, n) ==
    IF n > Len(qs) THEN Return(<<TRUE, "">>)
    ELSE IF ~validate_question_format(qs[n]).val[1]
         THEN Return(<<FALSE, question_error(n,
                                  validate_question_format(qs[n]).val[2])>>)
         ELSE validate_from(qs, n + 1)

validate_questions(qs) ==
    IF qs = <<>> THEN Return(<<FALSE, "No questions found in the deck">>)
    ELSE validate_from(qs, 1)

-----------------------------------------------------------------------------
(* The calls.                                                              *)

ParseAnswers ==
    /\ pc = "call" /\ fn = "parse_answers"
    /\ ret' = parse_answers(answer_string)
    /\ pc' = "return"
    /\ UNCHANGED <<fn, answer_string, user_answers, correct_answers,
                   question, questions>>

CheckAnswer ==
    /\ pc = "call" /\ fn = "check_answer"
    /\ ret' = check_answer(user_answers, correct_answers)
    /\ pc' = "return"
    /\ UNCHANGED <<fn, answer_string, user_answers, correct_answers,
                   question, questions>>

GetQuestionType ==
    /\ pc = "call" /\ fn = "get_question_type"
    /\ ret' = get_question_type(question)
    /\ pc' = "return"
    /\ UNCHANGED <<fn, answer_string, user_answers, correct_answers,
                   question, questions>>

GetShuffledOptions ==
    /\ pc = "call" /\ fn = "get_shuffled_options"
    /\ \E p \in ShuffleOrders(NumOptions(question)) :
           ret' = get_shuffled_options(question, p)
    /\ pc' = "return"
    /\ UNCHANGED <<fn, answer_string, user_answers, correct_answers,
                   question, questions>>

ValidateQuestionFormat ==
    /\ pc = "call" /\ fn = "validate_question_format"
    /\ ret' = validate_question_format(question)
    /\ pc' = "return"
    /\ UNCHANGED <<fn, answer_string, user_answers, correct_answers,
                   question, questions>>

ValidateQuestions ==
    /\ pc = "call" /\ fn = "validate_questions"
    /\ ret' = validate_questions(questions)
    /\ pc' = "return"
    /\ UNCHANGED <<fn, answer_string, user_answers, correct_answers,
                   question, questions>>

-----------------------------------------------------------------------------
(* The codec and the classifier on strings enumerated character by         *)
(* character.                                                              *)

Strings == SeqsUpTo(Chars, MaxStrLen)

\* a question with nothing but its Answers
OnlyAnswers(a) == [hasQuestion |-> TRUE, Answers |-> a, Q |-> NoOptions]

\* the shapes of Answers the classifier can meet
CodecQuestion(q) ==
    \/ q \in {OnlyAnswers(AbsentValue), OnlyAnswers(OtherValue)}
    \/ q = OnlyAnswers(ListValue(<<>>))
    \/ \E s \in Strings : q = OnlyAnswers(ListValue(<<s>>))
    \/ \E s \in Strings : q = OnlyAnswers(ListValue(<<s, <<"1">>>>))
    \/ \E s \in Strings : q = OnlyAnswers(StrValue(s))

InitIdle ==
    /\ pc = "call"
    /\ ret = NoRet

InitCodec ==
    /\ InitIdle
    /\ questions = <<>>
    /\ \/ /\ fn = "parse_answers"
          /\ answer_string \in Strings
          /\ user_answers = <<>> /\ correct_answers = <<>>
          /\ question = NoQuestion
       \/ /\ fn = "check_answer"
          /\ user_answers \in SeqsUpTo(BOOLEAN, MaxAnswers)
          /\ correct_answers \in SeqsUpTo({0, 1, 2}, MaxAnswers)
          /\ answer_string = <<>>
          /\ question = NoQuestion
       \/ /\ fn = "get_question_type"
          /\ CodecQuestion(question)
          /\ answer_string = <<>>
          /\ user_answers = <<>> /\ correct_answers = <<>>

NextCodec == ParseAnswers \/ CheckAnswer \/ GetQuestionType

SpecCodec == InitCodec /\ [][NextCodec]_vars

-----------------------------------------------------------------------------
(* Properties of the codec and the classifier.                             *)

Done(f) == pc = "return" /\ fn = f

\* the number of positions of s holding c
CountChar(s, c) == Cardinality({i \in 1..Len(s) : s[i] = c})

\* s is made of the tokens 0 and 1 and of whitespace between them
IsBitTokens(s) ==
    /\ \A i \in 1..Len(s) : s[i] \in {"0", "1", " "}
    /\ \A i \in 1..(Len(s) - 1) : s[i] = " " \/ s[i + 1] = " "

\* s[i..j] is a whitespace-delimited token of s
IsTokenAt(s, i, j) ==
    /\ i <= j
    /\ \A k \in i..j : ~isspace(s[k])
    /\ i = 1 \/ isspace(s[i - 1])
    /\ j = Len(s) \/ isspace(s[j + 1])

\* some whitespace-delimited token of s is no integer literal
HasBadToken(s) ==
    \E i, j \in 1..Len(s) :
        IsTokenAt(s, i, j) /\ ~IsIntLiteral(SubSeq(s, i, j))

\* s is empty after trimming
IsBlank(s) == \A i \in 1..Len(s) : isspace(s[i])

\* C2: check_answer returns true exactly when the 1/0 image of user_answers
\* is the prefix of correct_answers of length len(user_answers): true for an
\* empty user_answers, false for one longer than correct_answers.
C2_CheckAnswerPrefix ==
    Done("check_answer") =>
        /\ ret.ok
        /\ ret.val <=>
              /\ Len(user_answers) <= Len(correct_answers)
              /\ \A i \in 1..Len(user_answers) :
                     correct_answers[i] = (IF user_answers[i] THEN 1 ELSE 0)
        /\ user_answers = <<>> => ret.val
        /\ Len(user_answers) > Len(correct_answers) => ~ret.val

\* a true verdict on a user sequence shorter than correct_answers
C2_Witness ==
    /\ Done("check_answer")
    /\ 0 < Len(user_answers) /\ Len(user_answers) < Len(correct_answers)
    /\ ret.val = TRUE

\* C3: for a list Answers whose first element is a string of 0/1 tokens,
\* get_question_type returns (kind, count) with count the number of 1 tokens
\* and kind "single" exactly when count = 1, "multiple" otherwise (count = 0
\* included).
C3_QuestionType ==
    (/\ Done("get_question_type")
     /\ question.Answers.kind = "list"
     /\ question.Answers.val # <<>>
     /\ IsBitTokens(question.Answers.val[1]))
    => /\ ret.ok
       /\ ret.val[2] = CountChar(question.Answers.val[1], "1")
       /\ ret.val[1] = (IF ret.val[2] = 1 THEN "single" ELSE "multiple")
       /\ ret.val[1] \in {"single", "multiple"}

\* a question with tokens but no 1 among them is classified "multiple"
C3_Witness ==
    /\ Done("get_question_type")
    /\ question.Answers.kind = "list"
    /\ question.Answers.val # <<>>
    /\ IsBitTokens(question.Answers.val[1])
    /\ CountChar(question.Answers.val[1], "0") = 2
    /\ ret.ok /\ ret.val = <<"multiple", 0>>

\* C6: malformed input ends in an error, never in a normal result:
\* parse_answers fails when some whitespace-delimited token is no integer
\* (and returns the empty sequence for a blank input); get_question_type
\* fails when Answers is absent, is empty, or has a first element that
\* parse_answers rejects.
C6_MalformedFails ==
    /\ Done("parse_answers") =>
          /\ HasBadToken(answer_string) => ~ret.ok
          /\ IsBlank(answer_string) => ret.ok /\ ret.val = <<>>
    /\ Done("get_question_type") =>
          /\ question.Answers.kind = "absent" => ~ret.ok
          /\ question.Answers.val = <<>> => ~ret.ok
          /\ (/\ question.Answers.kind = "list"
              /\ question.Answers.val # <<>>
              /\ HasBadToken(question.Answers.val[1])) => ~ret.ok
          /\ (/\ question.Answers.kind = "str"
              /\ question.Answers.val # <<>>
              /\ HasBadToken(<<question.Answers.val[1]>>)) => ~ret.ok

\* the classifier fails on a list whose first element has a token that is
\* no integer, behind one that is
C6_Witness ==
    /\ Done("get_question_type")
    /\ question.Answers.kind = "list"
    /\ question.Answers.val # <<>>
    /\ HasBadToken(question.Answers.val[1])
    /\ ~HasBadToken(SubSeq(question.Answers.val[1], 1, 1))
    /\ ~IsBlank(SubSeq(question.Answers.val[1], 1, 1))
    /\ ~ret.ok /\ ret.err = "ValueError"

\* C7: every encoding parse_answers returns is a sequence of 0s and 1s of
\* length at most 6.
C7_EncodingIsBits ==
    (Done("parse_answers") /\ ret.ok) =>
        /\ \A i \in 1..Len(ret.val) : ret.val[i] \in {0, 1}
        /\ Len(ret.val) <= NumSlots

-----------------------------------------------------------------------------
(* The shuffler on questions whose Answers[0] is written out from an       *)
(* encoding and whose option slots are absent, blank or filled.            *)

BitChar(b) == IF b = 1 THEN "1" ELSE "0"

\* the answer string of an encoding: its tokens, a blank between two
RECURSIVE Format(_)
Format(enc) ==
    IF enc = <<>> THEN <<>>
    ELSE IF Len(enc) = 1 THEN <<BitChar(enc[1])>>
         ELSE <<BitChar(enc[1]), " ">> \o Format(Tail(enc))

\* the encodings of at most n tokens, at most m of them 1
Encodings(n, m) == {e \in SeqsUpTo({0, 1}, n) : sum(e) <= m}

\* the sets of at most n slots
FieldSets(n) == {S \in SUBSET (1..NumSlots) : Cardinality(S) <= n}

\* option texts: blank, and two texts with whitespace around them
OptionTexts == {<<" ">>, <<" ", "a">>, <<"b", " ">>}

InitShuffle ==
    /\ InitIdle
    /\ fn = "get_shuffled_options"
    /\ answer_string = <<>>
    /\ user_answers = <<>> /\ correct_answers = <<>>
    /\ questions = <<>>
    /\ \E e \in Encodings(MaxTokens, MaxOnes), S \in FieldSets(MaxFields) :
           \E Q \in [S -> OptionTexts] :
               question = [hasQuestion |-> TRUE,
                           Answers |-> ListValue(<<Format(e)>>),
                           Q |-> Q]

NextShuffle == GetShuffledOptions

SpecShuffle == InitShuffle /\ [][NextShuffle]_vars

-----------------------------------------------------------------------------
(* Properties of the shuffler.                                             *)

\* the value under Q_i, '' when the key is absent
RawOption(q, i) == IF i \in DOMAIN q.Q THEN q.Q[i] ELSE <<>>

NonSpaces(s) == {k \in 1..Len(s) : ~isspace(s[k])}

SetMin(S) == CHOOSE x \in S : \A y \in S : x <= y

SetMax(S) == CHOOSE x \in S : \A y \in S : x >= y

\* s without the whitespace around it
Trimmed(s) ==
    IF NonSpaces(s) = {} THEN <<>>
    ELSE SubSeq(s, SetMin(NonSpaces(s)), SetMax(NonSpaces(s)))

\* the slots whose Q_i is non-empty after trimming
PopulatedSlots(q) == {i \in 1..NumSlots : NonSpaces(RawOption(q, i)) # {}}

\* what slot i contributes to the reference list
ReferencePair(q, enc, i) ==
    <<Trimmed(RawOption(q, i)), IF i <= Len(enc) THEN enc[i] ELSE 0>>

\* the returned (option, flag) pair at position j
ReturnedPair(r, j) == <<r.val[1][j], r.val[2][j]>>

\* the returned pairs are a permutation of the reference list: every pair
\* occurs as often among the returned ones as among the populated slots
IsPermutationOfReference(q, enc, r) ==
    /\ Len(r.val[1]) = Cardinality(PopulatedSlots(q))
    /\ \A j \in 1..Len(r.val[1]) :
           Cardinality({k \in 1..Len(r.val[1]) :
                            ReturnedPair(r, k) = ReturnedPair(r, j)})
           = Cardinality({i \in PopulatedSlots(q) :
                              ReferencePair(q, enc, i) = ReturnedPair(r, j)})

\* C1: when Answers[0] parses, get_shuffled_options returns, for every
\* outcome of the shuffle, two sequences of the same length k, the number of
\* slots non-empty after trimming, and its (option, flag) pairs are a
\* permutation of the reference list, where slot i contributes its trimmed
\* text with encoding[i-1], or with 0 past the end of the encoding; an empty
\* slot does not shift the flags of the slots behind it.
C1_ShufflePermutes ==
    Done("get_shuffled_options") =>
        LET encoding == AnswersEncoding(question) IN
        encoding.ok =>
            /\ ret.ok
            /\ Len(ret.val[1]) = Len(ret.val[2])
            /\ Len(ret.val[1]) = Cardinality(PopulatedSlots(question))
            /\ IsPermutationOfReference(question, encoding.val, ret)

\* two options returned against slot order, the correct one from a slot
\* behind an empty slot, the other from a slot the encoding does not reach
C1_Witness ==
    /\ Done("get_shuffled_options") /\ ret.ok
    /\ Len(ret.val[1]) = 2
    /\ \E i, j \in PopulatedSlots(question) :
           /\ 1 \notin PopulatedSlots(question)
           /\ i < j
           /\ i <= Len(AnswersEncoding(question).val)
           /\ j > Len(AnswersEncoding(question).val)
           /\ ReferencePair(question, AnswersEncoding(question).val, i)[2] = 1
           /\ ReturnedPair(ret, 1) =
                  ReferencePair(question, AnswersEncoding(question).val, j)
           /\ ReturnedPair(ret, 2) =
                  ReferencePair(question, AnswersEncoding(question).val, i)

\* the number of elements of xs equal to 1
Ones(xs) == Cardinality({j \in 1..Len(xs) : xs[j] = 1})

\* every 1 of the encoding stands at a populated slot
OnesAllShown(q, enc) ==
    \A k \in 1..Len(enc) : enc[k] = 1 => k \in PopulatedSlots(q)

\* C9: for an Answers[0] of 0/1 tokens the shuffler returns at most as many
\* flags equal to 1 as the classifier counts for the same question, and as
\* many exactly when every 1 of the encoding stands at a slot 1..6 that is
\* non-empty after trimming.
C9_ShownAtMostCounted ==
    (/\ Done("get_shuffled_options")
     /\ question.Answers.kind = "list"
     /\ question.Answers.val # <<>>
     /\ IsBitTokens(question.Answers.val[1]))
    => LET classified == get_question_type(question) IN
       /\ ret.ok
       /\ classified.ok
       /\ Ones(ret.val[2]) <= classified.val[2]
       /\ Ones(ret.val[2]) = classified.val[2]
              <=> OnesAllShown(question, AnswersEncoding(question).val)

\* a 1 beyond slot 6 is counted by the classifier and shown by no option
C9_Witness ==
    /\ Done("get_shuffled_options") /\ ret.ok
    /\ Len(AnswersEncoding(question).val) = NumSlots + 1
    /\ AnswersEncoding(question).val[NumSlots + 1] = 1
    /\ Len(ret.val[2]) = 2
    /\ Ones(ret.val[2]) = 0
    /\ get_question_type(question).val = <<"single", 1>>

-----------------------------------------------------------------------------
(* The round trip of a caller: classify or shuffle a question, show the    *)
(* shuffled options, collect the user's selection and check it against     *)
(* the shuffled flags.  Answers is a list, or a string as                  *)
(* validate_question_format accepts it too.                                *)

\* what a string Answers may start with before its tokens
StrPrefixes == {<<>>, <<" ">>, <<"x">>}

QuizTexts == {<<" ">>, <<"a">>}

\* a question with a Question text, Answers a and the option fields Q
Question(a, Q) == [hasQuestion |-> TRUE, Answers |-> a, Q |-> Q]

InitQuiz ==
    /\ InitIdle
    /\ fn \in {"get_question_type", "get_shuffled_options"}
    /\ answer_string = <<>>
    /\ user_answers = <<>> /\ correct_answers = <<>>
    /\ questions = <<>>
    /\ \E S \in FieldSets(MaxFields), e \in SeqsUpTo({0, 1}, MaxQuizTokens) :
           \E Q \in [S -> QuizTexts] :
               \/ question = Question(ListValue(<<Format(e)>>), Q)
               \/ \E pre \in StrPrefixes :
                      question = Question(StrValue(pre \o Format(e)), Q)

\* the caller collects a selection for the options shown and hands it, with
\* the shuffled flags, to check_answer
UserSelects ==
    /\ Done("get_shuffled_options") /\ ret.ok
    /\ \E ua \in SeqsUpTo(BOOLEAN, Len(ret.val[2]) + 1) : user_answers' = ua
    /\ correct_answers' = ret.val[2]
    /\ fn' = "check_answer"
    /\ pc' = "call"
    /\ ret' = NoRet
    /\ UNCHANGED <<answer_string, question, questions>>

NextQuiz == GetQuestionType \/ GetShuffledOptions \/ UserSelects \/ CheckAnswer

SpecQuiz == InitQuiz /\ [][NextQuiz]_vars

-----------------------------------------------------------------------------
(* Properties of the round trip and of a string Answers.                   *)

\* the user's selection at position j is the flag's: selected exactly when
\* the flag is 1
SelectionMatches(ua, flags, j) == ua[j] = (flags[j] = 1)

\* C8: for an Answers[0] of 0/1 tokens and any outcome of the shuffle, a
\* selection of exactly the options whose flag is 1 passes check_answer
\* against the shuffled flags, and a selection that differs from the flags
\* at some position fails it.
C8_RoundTrip ==
    (/\ Done("check_answer")
     /\ AnswersFirst(question).ok
     /\ IsBitTokens(AnswersFirst(question).val))
    => /\ ret.ok
       /\ (/\ Len(user_answers) = Len(correct_answers)
           /\ \A j \in 1..Len(correct_answers) :
                  SelectionMatches(user_answers, correct_answers, j))
          => ret.val = TRUE
       /\ (\E j \in 1..Min(Len(user_answers), Len(correct_answers)) :
               ~SelectionMatches(user_answers, correct_answers, j))
          => ret.val = FALSE

\* the exact selection of two shuffled options, one of them correct, passes
C8_Witness ==
    /\ Done("check_answer")
    /\ AnswersFirst(question).ok
    /\ IsBitTokens(AnswersFirst(question).val)
    /\ correct_answers = <<0, 1>>
    /\ user_answers = <<FALSE, TRUE>>
    /\ ret.val = TRUE

\* the number of whitespace-delimited tokens of s
NumTokens(s) == Cardinality({ij \in (1..Len(s)) \X (1..Len(s)) :
                                 IsTokenAt(s, ij[1], ij[2])})

\* whether int accepts the one character c after trimming, or nothing is left
FirstCharParses(c) == isspace(c) \/ c \in Digits

\* the encoding of the one character c
FirstCharEncoding(c) == IF isspace(c) THEN <<>> ELSE <<DigitVal(c)>>

\* the question with its string Answers s put into a list: [s]
ListForm(q) == [q EXCEPT !.Answers = ListValue(<<q.Answers.val>>)]

IsStringForm(q) == q.Answers.kind = "str" /\ q.Answers.val # <<>>

\* what both functions do with a non-empty string Answers: they work on the
\* encoding of its first character, of at most one element, so that every
\* populated option in slots 2..6 gets flag 0
UsesFirstCharOnly ==
    /\ (Done("get_question_type") /\ IsStringForm(question)) =>
          /\ ret.ok <=> FirstCharParses(question.Answers.val[1])
          /\ ret.ok => ret.val[2] = sum(FirstCharEncoding(question.Answers.val[1]))
    /\ (Done("get_shuffled_options") /\ IsStringForm(question)) =>
          /\ ret.ok <=> FirstCharParses(question.Answers.val[1])
          /\ ret.ok =>
                /\ IsPermutationOfReference(
                       question, FirstCharEncoding(question.Answers.val[1]), ret)
                /\ \A j \in 1..Len(ret.val[2]) :
                       ret.val[2][j] # 0 =>
                           ret.val[1][j] = Trimmed(RawOption(question, 1))

\* the results get_shuffled_options may return for q
ShuffledResults(q) ==
    {get_shuffled_options(q, p) : p \in ShuffleOrders(NumOptions(q))}

\* C10 as stated: with a non-empty string Answers s both functions use the
\* encoding of the first character of s only, and their results differ from
\* those for the list form [s] whenever s holds more than one token.
C10_StringFormResultsDiffer ==
    /\ UsesFirstCharOnly
    /\ (/\ Done("get_question_type")
        /\ IsStringForm(question)
        /\ NumTokens(question.Answers.val) > 1)
       => ret # get_question_type(ListForm(question))
    /\ (/\ Done("get_shuffled_options")
        /\ IsStringForm(question)
        /\ NumTokens(question.Answers.val) > 1)
       => ShuffledResults(question) # ShuffledResults(ListForm(question))

\* C10 (amended): with a non-empty string Answers s both functions use the
\* encoding of the first character of s only, of at most one element, so that
\* every populated option in slots 2..6 gets flag 0; that encoding differs
\* from parse_answers(s), the list form's, whenever s holds more than one
\* token and parses.  The results themselves need not differ.
C10_StringFormEncodingDiffers ==
    /\ UsesFirstCharOnly
    /\ (/\ pc = "return"
        /\ fn \in {"get_question_type", "get_shuffled_options"}
        /\ IsStringForm(question))
       => /\ AnswersEncoding(question).ok => Len(AnswersEncoding(question).val) <= 1
          /\ (/\ NumTokens(question.Answers.val) > 1
              /\ parse_answers(question.Answers.val).ok)
             => \/ ~AnswersEncoding(question).ok
                \/ AnswersEncoding(question).val
                       # AnswersEncoding(ListForm(question)).val

\* a string Answers whose second token is 1: the option of slot 2 is shown
\* with flag 0, and the list form would show it with flag 1
C10_Witness ==
    /\ Done("get_shuffled_options") /\ ret.ok
    /\ IsStringForm(question)
    /\ question.Answers.val = <<"0", " ", "1">>
    /\ PopulatedSlots(question) = {2}
    /\ ret.val[2] = <<0>>
    /\ \A p \in ShuffleOrders(1) :
           get_shuffled_options(ListForm(question), p).val[2] = <<1>>

-----------------------------------------------------------------------------
(* The validators on questions of every shape: the Question key present or *)
(* not; Answers absent, of another type, a list or a string, parseable or  *)
(* not.                                                                    *)

AnswersShapes ==
    {"absent", "other", "empty list", "list", "bad list", "str", "bad str"}

QuestionShapes == BOOLEAN \X AnswersShapes

AnswersOfShape(a) ==
    CASE a = "absent"     -> AbsentValue
      [] a = "other"      -> OtherValue
      [] a = "empty list" -> ListValue(<<>>)
      [] a = "list"       -> ListValue(<<<<"1", " ", "0">>>>)
      [] a = "bad list"   -> ListValue(<<<<"1", " ", "x">>>>)
      [] a = "str"        -> StrValue(<<"1", " ", "0">>)
      [] a = "bad str"    -> StrValue(<<"x">>)

QuestionOfShape(sh) ==
    [hasQuestion |-> sh[1], Answers |-> AnswersOfShape(sh[2]), Q |-> NoOptions]

InitValidate ==
    /\ InitIdle
    /\ answer_string = <<>>
    /\ user_answers = <<>> /\ correct_answers = <<>>
    /\ \/ /\ fn = "validate_question_format"
          /\ \E sh \in QuestionShapes : question = QuestionOfShape(sh)
          /\ questions = <<>>
       \/ /\ fn = "validate_questions"
          /\ \E deck \in SeqsUpTo(QuestionShapes, MaxDeck) :
                 questions = [i \in 1..Len(deck) |-> QuestionOfShape(deck[i])]
          /\ question = NoQuestion

NextValidate == ValidateQuestionFormat \/ ValidateQuestions

SpecValidate == InitValidate /\ [][NextValidate]_vars

-----------------------------------------------------------------------------
(* Properties of the validators.                                           *)

\* the question has both required fields and Answers is a list or a string
WellFormed(q) == q.hasQuestion /\ q.Answers.kind \in {"list", "str"}

\* the positions of the questions of the deck that fail the format check
Failing(qs) ==
    {i \in 1..Len(qs) : validate_question_format(qs[i]).val[1] = FALSE}

\* C4: validate_questions returns (false, "No questions found in the deck")
\* for an empty deck, (true, "") exactly when every question passes
\* validate_question_format, and otherwise (false, "Question n: e") for the
\* first failing question n and its message e, whatever fails behind it.
C4_FirstFailureReported ==
    Done("validate_questions") =>
        /\ ret.ok
        /\ questions = <<>> =>
               ret.val = <<FALSE, "No questions found in the deck">>
        /\ questions # <<>> =>
               /\ ret.val = <<TRUE, "">> <=> Failing(questions) = {}
               /\ Failing(questions) # {} =>
                      ret.val = <<FALSE,
                                  "Question "
                                  \o ToString(SetMin(Failing(questions)))
                                  \o ": "
                                  \o validate_question_format(
                                         questions[SetMin(Failing(questions))]).val[2]>>

\* the second question is the first to fail, and the third fails too, with
\* another message
C4_Witness ==
    /\ Done("validate_questions")
    /\ Failing(questions) = {2, 3}
    /\ ret.val = <<FALSE, "Question 2: Missing required field: Answers">>
    /\ validate_question_format(questions[3]).val[2] #
           validate_question_format(questions[2]).val[2]

\* C5: validate_question_format returns (true, "") exactly when the question
\* has both fields and Answers is a list or a string, and false with a
\* non-empty message otherwise, "Missing required field: <name>" for a
\* missing field; the contents of Answers never matter, so an Answers that
\* parse_answers rejects is accepted.
C5_FormatOnly ==
    Done("validate_question_format") =>
        /\ ret.ok
        /\ ret.val = <<TRUE, "">> <=> WellFormed(question)
        /\ ~WellFormed(question) => ret.val[1] = FALSE /\ ret.val[2] # ""
        /\ ~question.hasQuestion =>
               ret.val[2] = "Missing required field: Question"
        /\ (question.hasQuestion /\ question.Answers.kind = "absent") =>
               ret.val[2] = "Missing required field: Answers"

\* a question whose Answers does not parse passes the format check
C5_Witness ==
    /\ Done("validate_question_format")
    /\ WellFormed(question)
    /\ ~AnswersEncoding(question).ok
    /\ AnswersEncoding(question).err = "ValueError"
    /\ ret.val = <<TRUE, "">>

=============================================================================
